---- MODULE Spec2Model ----
(***************************************************************************)
(* DRVI: the generative module (DRVIModule), the DRVI model constructor    *)
(* and the post-hoc analysis routines of GenerativeMixin.                  *)
(*                                                                         *)
(* Python values are modelled as follows.  A str is a sequence of          *)
(* one-character strings.  A 1-d tensor / array is a sequence of integers, *)
(* one entry per cell (row).  None and an attribute that was never         *)
(* assigned are the strings "None" and "unset".  bool attributes are the   *)
(* strings "True" / "False" so that they can share a variable with         *)
(* "unset".                                                                *)
(***************************************************************************)
EXTENDS Integers, Sequences, FiniteSets, TLC

\* ------------------------------------------------------------------ bounds
\* batches the data loader of one iterate_on_ae_output call can yield
MaxBatches == 2
\* depth of nested iterate_on_ae_output calls (a step_func calling it again)
MaxDepth == 2
\* rows of the latent array given to decode_latent_samples
MaxRows == 3
\* batch_size given to decode_latent_samples
MaxBatchSize == 2
\* training runs
MaxTrain == 1
\* characters after the family name in a prior identifier
MaxTail == 3
\* observations in prior_init_obs, rows of a batch of the prior's loader
MaxObs == 3
\* batches of a prior_init_dataloader
MaxLoaderBatches == 2
\* cells of the batch handed to one forward pass
MaxCells == 2
\* n_input: features (genes) of a cell
NFeatures == 2
\* n_latent: dimensions of the latent space
NLatent == 2
\* splits of the decoder
NSplit == 2
\* largest kl_weight handed to the loss step
MaxKlWeight == 2

VARIABLES
    training,             \* nn.Module.training of self.module
    fully_deterministic,  \* self.module.fully_deterministic
    split_aggregation,    \* self.module.split_aggregation
    shared_covariate_emb, \* self.module.shared_covariate_emb: "None" or "emb"
    n_extra_continuous_covs, \* self.summary_stats["n_extra_continuous_covs"]
    weights,              \* number of training runs the parameters have had
    calls,                \* stack of iterate_on_ae_output activations
    dec,                  \* the decode_latent_samples activation
    prev,                 \* what the last finished decode_latent_samples did
    build,                \* the constructor call and what it left
    fill_in_the_blanks_ratio, \* self.module.fill_in_the_blanks_ratio, in tenths
    fwd                   \* the forward pass of the module on one batch

modvars == <<training, fully_deterministic, split_aggregation,
             shared_covariate_emb, n_extra_continuous_covs, weights>>
fwdvars == <<fill_in_the_blanks_ratio, fwd>>
vars == <<modvars, calls, dec, prev, build, fwdvars>>

\* The running iterate_on_ae_output activation, if any.
Top == calls[Len(calls)]
Depth == Len(calls)
Idle == calls = <<>>

\* ------------------------------------------------------------ small helpers
RECURSIVE SumSeq(_)
SumSeq(s) == IF s = <<>> THEN 0 ELSE Head(s) + SumSeq(Tail(s))

RECURSIVE Flatten(_)
Flatten(ss) == IF ss = <<>> THEN <<>> ELSE Head(ss) \o Flatten(Tail(ss))

Max2(a, b) == IF a >= b THEN a ELSE b

RECURSIVE MaxSeq(_)
MaxSeq(s) == IF Len(s) = 1 THEN s[1] ELSE Max2(Head(s), MaxSeq(Tail(s)))

Last(s) == s[Len(s)]
ButLast(s) == SubSeq(s, 1, Len(s) - 1)

Abs(v) == IF v < 0 THEN 0 - v ELSE v

RECURSIVE Pow2(_)
Pow2(n) == IF n <= 0 THEN 1 ELSE 2 * Pow2(n - 1)

\* torch.log on the integer grid of the model.
RECURSIVE Log(_)
Log(v) == IF v < 3 THEN 0 ELSE 1 + Log(v \div 3)

\* ------------------------------------------------------------ the data
\* A tensor of shape (cells, k) is a sequence of cells, each a sequence of k
\* integers.  Rows of one batch of the registered AnnData, and the cells of
\* the k-th batch (k = 1, 2, ...): a fixed data set of small counts.
AeRows == 1
AeBatch(k) == [j \in 1..AeRows |-> [f \in 1..NFeatures |-> (2 * k + j + f - 1) % 3]]

\* The reparameterisation noise of one cell: zero or not.
Eps == {0, 1}
EpsFor(batch) == [1..Len(batch) -> Eps]
NoEps(batch) == [c \in 1..Len(batch) |-> 0]
\* The perturbation dropout adds to a batch: none outside training mode.
DropoutFor(mode) == IF mode THEN Eps ELSE {0}

\* torch.rand_like(x_), in tenths: every feature low, every feature high, or
\* alternating.
RandPatterns(batch) ==
    {[c \in 1..Len(batch) |-> [f \in 1..NFeatures |-> v]] : v \in {2, 7}}
      \cup {[c \in 1..Len(batch) |-> [f \in 1..NFeatures |->
                IF (c + f + p) % 2 = 0 THEN 2 ELSE 7]] : p \in {0, 1}}
RandHigh(batch) == [c \in 1..Len(batch) |-> [f \in 1..NFeatures |-> 7]]

\* Covariates: absent (None), or a tensor of rank `dim` with one value per
\* cell.
NoCovs(n) == [given |-> FALSE, dim |-> 0, val |-> [i \in 1..n |-> 0]]
Covs(n, dim) == [given |-> TRUE, dim |-> dim, val |-> [i \in 1..n |-> i % 2]]

\* None, for an output that is a tensor otherwise.
None == [given |-> FALSE, val |-> <<>>]
Some(t) == [given |-> TRUE, val |-> t]

\* ------------------------------------------------------------ the module
\* The noise model's initial_transformation: log1p on the integer grid.
initial_transformation(x) ==
    [c \in 1..Len(x) |-> [f \in 1..NFeatures |->
        LET v == x[c][f] IN IF v = 0 THEN 0 ELSE 1 + Log(v)]]

\* DRVIModule._input_pre_processing with encode_covariates = False (the
\* default): the encoder input is the transformed x, whatever cont_covs is.
_input_pre_processing(x, cont_covs) ==
    [encoder_input |-> initial_transformation(x),
     library |-> [c \in 1..Len(x) |-> Log(SumSeq(x[c]))]]

\* Encoder: posterior mean and variance of a cell and the reparameterised
\* sample z = qz_m + sqrt(qz_v) * epsilon, with qz_v = 1.  The mean of
\* latent dimension d is computed from the hidden activation h of the cell.
EncoderMean(h, d) == h + d
z_encoder(x_, eps) ==
    [qz_m |-> [c \in 1..Len(x_) |->
                  LET h == SumSeq(x_[c])
                  IN  [d \in 1..NLatent |-> EncoderMean(h, d)]],
     qz_v |-> [c \in 1..Len(x_) |-> [d \in 1..NLatent |-> 1]],
     z    |-> [c \in 1..Len(x_) |->
                  LET h == SumSeq(x_[c])
                  IN  [d \in 1..NLatent |-> EncoderMean(h, d) + eps[c]]]]

\* The condition of both `if self.fill_in_the_blanks_ratio > 0. and
\* self.training` statements, in inference and in loss.
MaskingWhateverTheMode == fill_in_the_blanks_ratio > 0
Masking == fill_in_the_blanks_ratio > 0 /\ training

\* torch.where(rand >= ratio, 1., 0.)
MaskOf(rand) ==
    [c \in 1..Len(rand) |-> [f \in 1..NFeatures |->
        IF rand[c][f] >= fill_in_the_blanks_ratio THEN 1 ELSE 0]]

\* DRVIModule.inference.  It raises (assert cont_covs is None) when it masks
\* and continuous covariates are given.  The z of the encoder is handed on
\* as it is; no attribute of the module other than fill_in_the_blanks_ratio,
\* training, shared_covariate_emb and encode_covariates is read.
\* encoder_input is what z_encoder received.
inferenceRaises(cont_covs) == Masking /\ cont_covs.given
inference(x, cont_covs, rand, eps) ==
    LET pre == _input_pre_processing(x, cont_covs)
        x_mask == IF Masking THEN Some(MaskOf(rand)) ELSE None
        x_ == IF Masking
              THEN [c \in 1..Len(x) |-> [f \in 1..NFeatures |->
                       pre.encoder_input[c][f] * x_mask.val[c][f]]]
              ELSE pre.encoder_input
        enc == z_encoder(x_, eps)
    IN  [z |-> enc.z, qz_m |-> enc.qz_m, qz_v |-> enc.qz_v,
         library |-> pre.library, x_mask |-> x_mask, encoder_input |-> x_]

\* DecoderDRVI, one mean per cell and feature.  In eval mode the means of a
\* cell depend on that cell alone.  In training mode batch normalisation
\* shifts every cell by a statistic of the whole batch and dropout perturbs
\* the batch.  The trained parameters enter as an offset.
BatchStat(rows) == SumSeq([i \in 1..Len(rows) |-> SumSeq(rows[i].z)]) % 2
decoder(rows, cat, mode, noise) ==
    LET shift == IF mode THEN BatchStat(rows) + noise ELSE 0
    IN  [i \in 1..Len(rows) |->
            LET h == 2 * SumSeq(rows[i].z) + rows[i].cont + cat[i] + weights
            IN  [f \in 1..NFeatures |-> h + f + shift]]

\* The decoder's mean of split s for feature f before the splits are
\* aggregated (original_params): negative, zero or positive, and zero in
\* every split for some cells.
OriginalMean(h, s, f) == (((h + s) % 3) - 1) * ((h + f) % 2)

\* DRVIModule.generative.  The two ways it fails: the rank assertion on the
\* continuous covariates, and shared_covariate_emb applied to cat_covs=None.
\* decoder_input is what the decoder received: z, with the continuous
\* covariates appended when they are given.
generativeWithoutRankAssertion(z_dim, cont_covs, cat_covs) ==
    shared_covariate_emb # "None" /\ ~cat_covs.given
generativeRaises(z_dim, cont_covs, cat_covs) ==
    \/ cont_covs.given /\ z_dim # cont_covs.dim
    \/ shared_covariate_emb # "None" /\ ~cat_covs.given
generative(z, cont_covs, cat_covs, noise) ==
    LET decoder_input == [i \in 1..Len(z) |->
                            [z |-> z[i],
                             cont |-> IF cont_covs.given THEN cont_covs.val[i] ELSE 0]]
    IN  [mean |-> decoder(decoder_input, cat_covs.val, training, noise),
         original |-> [i \in 1..Len(z) |->
                          LET h == SumSeq(z[i])
                          IN  [s \in 1..NSplit |-> [f \in 1..NFeatures |->
                                  OriginalMean(h, s, f)]]],
         decoder_input |-> [i \in 1..Len(z) |->
                              IF cont_covs.given
                              THEN z[i] \o <<cont_covs.val[i]>> ELSE z[i]]]

\* The prior's kl(Normal(qz_m, sqrt(qz_v))): one value per cell and latent
\* dimension (the closed form against N(0, I), on the integer grid).
prior_kl(qz_m, qz_v) ==
    [c \in 1..Len(qz_m) |-> [d \in 1..NLatent |->
        LET m == qz_m[c][d] IN m * m + qz_v[c][d] - 1]]

\* -px.log_prob(x) of the noise model: one value per cell and feature.
NegLogProb(x, mean) ==
    [c \in 1..Len(x) |->
        LET row == mean[c]
        IN  [f \in 1..NFeatures |->
                LET d == x[c][f] - row[f] IN d * d]]

\* DRVIModule.loss.  torch.mean is kept as the pair (sum, count).
KlFirstDimensionOnly(kl_row) == kl_row[1]
KlPerCell(kl_row) == SumSeq(kl_row)
KeptWeight(m) == m
MaskedWeight(m) == 1 - m
loss(x, inference_outputs, generative_outputs, kl_weight) ==
    LET x_mask == inference_outputs.x_mask
        nll == NegLogProb(x, generative_outputs.mean)
        kl == prior_kl(inference_outputs.qz_m, inference_outputs.qz_v)
        kl_divergence_z == [c \in 1..Len(x) |-> KlPerCell(kl[c])]
        reconst_loss ==
            IF Masking
            THEN [c \in 1..Len(x) |->
                     SumSeq([f \in 1..NFeatures |->
                                nll[c][f] * MaskedWeight(x_mask.val[c][f])])]
            ELSE [c \in 1..Len(x) |-> SumSeq(nll[c])]
        weighted_kl_local == [c \in 1..Len(x) |-> kl_weight * kl_divergence_z[c]]
    IN  [loss |-> [sum |-> SumSeq([c \in 1..Len(x) |->
                                      reconst_loss[c] + weighted_kl_local[c]]),
                   count |-> Len(x)],
         reconstruction_loss |-> reconst_loss,
         kl_divergence_z |-> kl_divergence_z]

\* F.softplus, on the integer grid of the model: positive and increasing.
Softplus(m) == IF m <= 0 THEN 1 ELSE m + 1

\* A share is the fraction num / den.  F.softmax over the splits (powers of
\* two for exp), and F.normalize(|v|, p=1) over the splits: |v| divided by
\* max(sum |v|, eps), which is 0 in every split when every split is 0.
MinSeq(s) == 0 - MaxSeq([i \in 1..Len(s) |-> 0 - s[i]])
softmax(v) ==
    LET low == MinSeq(v)
        den == SumSeq([t \in 1..Len(v) |-> Pow2(v[t] - low)])
    IN  [s \in 1..Len(v) |-> [num |-> Pow2(v[s] - low), den |-> den]]
normalize(v) ==
    LET den == Max2(SumSeq([t \in 1..Len(v) |-> Abs(v[t])]), 1)
    IN  [s \in 1..Len(v) |-> [num |-> Abs(v[s]), den |-> den]]

\* num / den times a value, in twelfths (float arithmetic as fixed point).
Times(share, m) == (12 * share.num * m) \div share.den

\* calculate_effect of both attribution routines up to the weighting.
\* Reading self.module.split_aggregation raises AttributeError when the
\* attribute was never assigned; any value other than "logsumexp" and "sum"
\* raises NotImplementedError.  effect_share[f][s] is the share of split s
\* in feature f of one cell.
EffectRaises == split_aggregation \notin {"logsumexp", "sum"}
EffectShare(orig) ==
    [f \in 1..NFeatures |->
        IF split_aggregation = "logsumexp"
        THEN softmax([s \in 1..NSplit |-> orig[s][f]])
        ELSE normalize([s \in 1..NSplit |-> orig[s][f]])]
\* effect_share * mean_in_log_space.unsqueeze(-2): cells x splits x features
Weighted(gen) ==
    [i \in 1..Len(gen.mean) |->
        LET effect_share == EffectShare(gen.original[i])
        IN  [s \in 1..NSplit |-> [f \in 1..NFeatures |->
                Times(effect_share[f][s], Softplus(gen.mean[i][f]))]]]
\* .sum(dim=-1): cells x splits
EffectRows(gen) ==
    [i \in 1..Len(gen.mean) |-> [s \in 1..NSplit |-> SumSeq(Weighted(gen)[i][s])]]
\* .amax(dim=0): splits x features
EffectMax(gen) ==
    [s \in 1..NSplit |-> [f \in 1..NFeatures |->
        MaxSeq([i \in 1..Len(gen.mean) |-> Weighted(gen)[i][s][f]])]]

\* ---------------------------------------------------------- construction
NotBuilt == [pc |-> "new"]

\* str.startswith, str.split(sep), `c in s`, and int() on the pieces that
\* split("_") leaves: digits only, at least one.
startswith(s, p) == Len(s) >= Len(p) /\ SubSeq(s, 1, Len(p)) = p
Contains(s, c) == \E i \in 1..Len(s) : s[i] = c

RECURSIVE split(_, _)
split(s, sep) ==
    IF ~Contains(s, sep) THEN <<s>>
    ELSE LET i == CHOOSE j \in 1..Len(s) :
                     s[j] = sep /\ \A h \in 1..(j - 1) : s[h] # sep
         IN  <<SubSeq(s, 1, i - 1)>> \o split(SubSeq(s, i + 1, Len(s)), sep)

Digits == {"0", "1", "2", "3", "4", "5", "6", "7", "8", "9"}
DigitValue(c) ==
    CASE c = "0" -> 0 [] c = "1" -> 1 [] c = "2" -> 2 [] c = "3" -> 3
      [] c = "4" -> 4 [] c = "5" -> 5 [] c = "6" -> 6 [] c = "7" -> 7
      [] c = "8" -> 8 [] c = "9" -> 9
intRaises(t) == t = <<>> \/ \E i \in 1..Len(t) : t[i] \notin Digits
RECURSIVE int(_)
int(t) == IF Len(t) = 1 THEN DigitValue(t[1])
          ELSE 10 * int(SubSeq(t, 1, Len(t) - 1)) + DigitValue(t[Len(t)])

\* The literals of the source.
normal == <<"n", "o", "r", "m", "a", "l">>
gmm_ == <<"g", "m", "m", "_">>
vamp_ == <<"v", "a", "m", "p", "_">>

\* DRVIModule._construct_gene_likelihood_module: the noise model chosen, or
\* the exception raised.
LikelihoodDefaulted == "NegativeBinomialNoiseModel(feature)"
UnknownLikelihood == "NotImplementedError"
_construct_gene_likelihood_module(gene_likelihood) ==
    IF gene_likelihood = "normal" THEN "NormalNoiseModel(fixed=1)"
    ELSE IF gene_likelihood = "normal_v" THEN "NormalNoiseModel(dynamic)"
    ELSE IF gene_likelihood = "normal_sv" THEN "NormalNoiseModel(feature)"
    ELSE IF gene_likelihood = "lognormal" THEN "LogNormalNoiseModel"
    ELSE IF gene_likelihood = "poisson" THEN "PoissonNoiseModel"
    ELSE IF gene_likelihood \in {"nb", "nb_sv"} THEN "NegativeBinomialNoiseModel(feature)"
    ELSE IF gene_likelihood = "nb_orig"
         THEN "NegativeBinomialNoiseModel(feature,softmax)"
    ELSE IF gene_likelihood \in {"pnb", "pnb_sv"}
         THEN "LogNegativeBinomialNoiseModel(feature)"
    ELSE UnknownLikelihood

\* A prior_init_dataloader: None, or the batches it yields in order.
NoLoader == [given |-> FALSE, batches |-> <<>>]
Loader(nb, m) ==
    [given |-> TRUE,
     batches |-> [b \in 1..nb |-> [j \in 1..m |->
                     [f \in 1..NFeatures |-> (b + j + f) % 4]]]]

NoPrior == [kind |-> "unset", n_components |-> 0, init |-> FALSE, data |-> <<>>]
Raised(e) == [error |-> e, prior |-> NoPrior, encoder_passes |-> 0, x_mask |-> None]
Built(kind, n, init, data, passes) ==
    [error |-> "none",
     prior |-> [kind |-> kind, n_components |-> n, init |-> init, data |-> data],
     encoder_passes |-> passes, x_mask |-> None]

\* DRVIModule._construct_prior: the prior built, or the exception raised.
\* next(iter(loader)) raises StopIteration on a loader without batches.
\* The 'gmm' branch calls self.inference on the first batch; rand is what
\* torch.rand_like yields should that pass mask, and x_mask is the mask of
\* that pass.
VampWithoutSamplesDefaulted == Built("StandardPrior", 0, FALSE, <<>>, 0)
VampWithoutSamples == Raised("ValueError")
_construct_prior(prior, prior_init_dataloader, rand) ==
    IF prior = normal THEN Built("StandardPrior", 0, FALSE, <<>>, 0)
    ELSE IF startswith(prior, gmm_)
    THEN IF intRaises(split(prior, "_")[2]) THEN Raised("ValueError")
         ELSE IF prior_init_dataloader.given
         THEN IF prior_init_dataloader.batches = <<>> THEN Raised("StopIteration")
              ELSE LET first == prior_init_dataloader.batches[1]
                       inference_outputs ==
                           inference(first, NoCovs(Len(first)), rand, NoEps(first))
                   IN  [Built("GaussianMixtureModelPrior", int(split(prior, "_")[2]),
                              TRUE, inference_outputs.qz_m, 1)
                          EXCEPT !.x_mask = inference_outputs.x_mask]
         ELSE Built("GaussianMixtureModelPrior", int(split(prior, "_")[2]), FALSE, <<>>, 0)
    ELSE IF startswith(prior, vamp_)
    THEN IF intRaises(split(prior, "_")[2]) THEN Raised("ValueError")
         ELSE IF prior_init_dataloader.given
         THEN IF prior_init_dataloader.batches = <<>> THEN Raised("StopIteration")
              ELSE Built("VampPrior", int(split(prior, "_")[2]), TRUE,
                         _input_pre_processing(
                             prior_init_dataloader.batches[1],
                             NoCovs(Len(prior_init_dataloader.batches[1]))).encoder_input,
                         0)
         ELSE VampWithoutSamples
    ELSE Raised("NotImplementedError")

\* DRVIModule.__init__: the noise model first, then encoder and decoder,
\* the prior last.  An exception leaves no module.
DRVIModule(gene_likelihood, prior, prior_init_dataloader, rand) ==
    LET glm == _construct_gene_likelihood_module(gene_likelihood)
        p == _construct_prior(prior, prior_init_dataloader, rand)
    IN  IF glm = "NotImplementedError"
        THEN [pc |-> "failed", error |-> "NotImplementedError",
              gene_likelihood_module |-> "unset", prior_obj |-> NoPrior,
              encoder_passes |-> 0, x_mask |-> None]
        ELSE IF p.error # "none"
        THEN [pc |-> "failed", error |-> p.error,
              gene_likelihood_module |-> "unset", prior_obj |-> NoPrior,
              encoder_passes |-> p.encoder_passes, x_mask |-> p.x_mask]
        ELSE [pc |-> "constructed", error |-> "none",
              gene_likelihood_module |-> glm, prior_obj |-> p.prior,
              encoder_passes |-> p.encoder_passes, x_mask |-> p.x_mask]

\* A DRVIModule is constructed directly.
ModuleInit(gene_likelihood, prior, prior_init_dataloader, rand) ==
    /\ build.pc = "new"
    /\ build' = [who |-> "DRVIModule", gene_likelihood |-> gene_likelihood,
                 prior |-> prior, loader |-> prior_init_dataloader, n_obs |-> 0 - 1]
                @@ DRVIModule(gene_likelihood, prior, prior_init_dataloader, rand)
    /\ UNCHANGED <<modvars, calls, dec, prev, fwdvars>>

\* The parameters DRVIModule.__init__ declares, and the keywords
\* DRVI.__init__ always passes to it.
ModuleInitParams ==
    {"n_input", "n_latent", "n_split_latent", "split_aggregation", "split_method",
     "decoder_reuse_weights", "encoder_dims", "decoder_dims", "n_cats_per_cov",
     "encode_covariates", "deeply_inject_covariates", "categorical_covariate_dims",
     "covariate_modeling_strategy", "use_batch_norm", "affine_batch_norm",
     "use_layer_norm", "fill_in_the_blanks_ratio", "input_dropout_rate",
     "encoder_dropout_rate", "decoder_dropout_rate", "gene_likelihood", "prior",
     "prior_init_dataloader", "var_activation", "encoder_layer_factory",
     "decoder_layer_factory", "extra_encoder_kwargs", "extra_decoder_kwargs"}
ModelInitKeywords ==
    {"n_input", "n_latent", "encoder_dims", "decoder_dims", "n_cats_per_cov",
     "n_continuous_cov", "prior", "prior_init_dataloader",
     "categorical_covariate_dims"}

\* The attributes DRVIModule.__init__ assigns on the module, the attributes
\* of the module DRVI.__init__ reads for its summary string, and those the
\* analysis mixin reads.
ModuleAttributes ==
    {"n_latent", "latent_distribution", "gene_likelihood", "encode_covariates",
     "deeply_inject_covariates", "gene_likelihood_module",
     "fill_in_the_blanks_ratio", "shared_covariate_emb", "z_encoder", "decoder",
     "prior"}
ModelReads == {"n_latent", "n_split_latent", "split_aggregation", "gene_likelihood"}
MixinReads == {"split_aggregation"}

\* `"_" in prior`, the first assertion of DRVI.__init__ on prior_init_obs.
HasSeparatorWhateverThePrior(prior) == TRUE
HasSeparator(prior) == Contains(prior, "_")

\* The component count DRVI.__init__ reads from the identifier.
ModelPriorCount(prior) == int(split(prior, "_")[Len(split(prior, "_"))])

\* DRVI.__init__ with n_obs observations as prior_init_obs (-1: None): the
\* two assertions, the loader of one batch, the DRVIModule call, the summary
\* string that reads the module's attributes.
DRVIInit(gene_likelihood, prior, n_obs, rand) ==
    /\ build.pc = "new"
    /\ LET args == [who |-> "DRVI", gene_likelihood |-> gene_likelihood,
                    prior |-> prior, n_obs |-> n_obs]
           fail(e) == [pc |-> "failed", error |-> e, loader |-> NoLoader,
                       gene_likelihood_module |-> "unset", prior_obj |-> NoPrior,
                       encoder_passes |-> 0, x_mask |-> None]
           last == split(prior, "_")[Len(split(prior, "_"))]
           loader == IF n_obs < 0 THEN NoLoader ELSE Loader(1, n_obs)
           module == DRVIModule(gene_likelihood, prior, loader, rand)
       IN  build' =
             IF n_obs >= 0 /\ ~HasSeparator(prior) THEN args @@ fail("AssertionError")
             ELSE IF n_obs >= 0 /\ intRaises(last) THEN args @@ fail("ValueError")
             ELSE IF n_obs >= 0 /\ n_obs # ModelPriorCount(prior)
             THEN args @@ fail("AssertionError")
             ELSE IF ~(ModelInitKeywords \subseteq ModuleInitParams)
             THEN args @@ fail("TypeError")
             ELSE IF module.pc = "failed" THEN args @@ [loader |-> loader] @@ module
             ELSE IF ~(ModelReads \subseteq ModuleAttributes)
             THEN args @@ fail("AttributeError")
             ELSE args @@ [loader |-> loader] @@ module
    /\ UNCHANGED <<modvars, calls, dec, prev, fwdvars>>

\* ------------------------------------------- iterate_on_decoded_latent_samples
NoDecode == [pc |-> "idle"]
NoForward == [pc |-> "idle", invoked |-> {}]
NoPrev == [valid |-> FALSE]

\* The arrays a caller passes: n latent rows, and per-row covariates.
ZArrays(n) == {[j \in 1..n |-> [d \in 1..NLatent |-> 2 * j + off + d]] : off \in {0, 1}}
Given(n, vals) == [given |-> TRUE, val |-> [j \in 1..n |-> vals[j]]]
NotGiven == [given |-> FALSE, val |-> <<>>]
LibArray(n) == [j \in 1..n |-> 3 * j]
CatArray(n) == [j \in 1..n |-> j % 2]
ContArray(n) == [j \in 1..n |-> j]

\* The library size used when lib is None: 1e4 per row.
DefaultLib == 10000

\* np.arange(i, min(i + batch_size, z.shape[0])), as 0-based row indices.
SliceDropsLast(i, batch_size, n) ==
    LET hi == IF i + batch_size < n - 1 THEN i + batch_size ELSE n - 1
    IN  [j \in 1..(hi - i) |-> i + j - 1]
Slice(i, batch_size, n) ==
    LET hi == IF i + batch_size < n THEN i + batch_size ELSE n
    IN  [j \in 1..(hi - i) |-> i + j - 1]

Take(arr, slice) == [j \in 1..Len(slice) |-> arr[slice[j] + 1]]

\* The tensors of one batch and the generative input built from them.
GenInput(d, slice) ==
    LET z_tensor == Take(d.z, slice)
        lib_tensor == IF ~d.lib.given THEN [j \in 1..Len(slice) |-> DefaultLib]
                      ELSE Take(d.lib.val, slice)
        cat_tensor == IF d.cat_key.given
                      THEN [given |-> TRUE, dim |-> 2, val |-> Take(d.cat_key.val, slice)]
                      ELSE NoCovs(Len(slice))
        cont == IF n_extra_continuous_covs = 1
                THEN [given |-> TRUE, dim |-> 2,
                      val |-> [j \in 1..Len(slice) |-> Log(lib_tensor[j])]]
                ELSE NoCovs(Len(slice))
    IN  [z |-> z_tensor, library |-> lib_tensor, cont_covs |-> cont,
         cat_covs |-> cat_tensor]

\* module.eval()
EvalForgotten == training
Eval == FALSE

\* The call: store = [] and self.module.eval().  While a finished call is
\* remembered for comparison, the next call repeats its arguments.
DecodeCall(z, lib, cat_key, cont_key, batch_size) ==
    /\ Idle /\ dec.pc = "idle"
    /\ prev.valid =>
          /\ z = prev.z /\ batch_size = prev.batch_size
          /\ lib = prev.lib /\ cat_key = prev.cat_key /\ cont_key = prev.cont_key
    /\ dec' = [pc |-> "loop", z |-> z, lib |-> lib, cat_key |-> cat_key,
               cont_key |-> cont_key, batch_size |-> batch_size, i |-> 0,
               store |-> <<>>, visited |-> <<>>, invoked |-> {}, handed |-> <<>>,
               pre_training |-> training, pre_fd |-> fully_deterministic,
               result |-> <<>>]
    /\ training' = Eval
    /\ UNCHANGED <<fully_deterministic, split_aggregation, shared_covariate_emb,
                   n_extra_continuous_covs, weights, calls, prev, build, fwdvars>>

\* One pass of the loop: the slice at i goes through the generative step and
\* step_func appends the mean; an exception of the generative step leaves the
\* routine at once.  `handed` keeps the generative input of every batch.
DecodeBatch(noise) ==
    /\ dec.pc = "loop" /\ dec.i < Len(dec.z)
    /\ noise \in DropoutFor(training)
    /\ LET slice == Slice(dec.i, dec.batch_size, Len(dec.z))
           gen_input == GenInput(dec, slice)
           called == dec.invoked \cup {"_get_generative_input", "generative"}
       IN  IF generativeRaises(2, gen_input.cont_covs, gen_input.cat_covs)
           THEN dec' = [dec EXCEPT !.pc = "raised", !.invoked = called,
                                   !.handed = Append(@, gen_input)]
           ELSE dec' = [dec EXCEPT
                    !.i = @ + dec.batch_size,
                    !.visited = Append(@, slice),
                    !.invoked = called,
                    !.handed = Append(@, gen_input),
                    !.store = Append(@, generative(gen_input.z, gen_input.cont_covs,
                                                   gen_input.cat_covs, noise).mean)]
    /\ UNCHANGED <<modvars, calls, prev, build, fwdvars>>

\* After the loop: aggregation_func(store), torch.cat of the stored means,
\* which raises on an empty list.
DecodeEnd ==
    /\ dec.pc = "loop" /\ dec.i >= Len(dec.z)
    /\ dec' = IF dec.store = <<>> THEN [dec EXCEPT !.pc = "raised"]
              ELSE [dec EXCEPT !.pc = "returned", !.result = Flatten(dec.store)]
    /\ UNCHANGED <<modvars, calls, prev, build, fwdvars>>

\* The caller has the result (or the exception).  `remember` keeps what the
\* call did, to compare the next call with it.
DecodeReturn(remember) ==
    /\ dec.pc \in {"returned", "raised"}
    /\ prev' = IF remember
               THEN [valid |-> TRUE, pc |-> dec.pc, z |-> dec.z, lib |-> dec.lib,
                     cat_key |-> dec.cat_key, cont_key |-> dec.cont_key,
                     batch_size |-> dec.batch_size, visited |-> dec.visited,
                     result |-> dec.result, training |-> training,
                     fully_deterministic |-> fully_deterministic,
                     weights |-> weights]
               ELSE NoPrev
    /\ dec' = NoDecode
    /\ UNCHANGED <<modvars, calls, build, fwdvars>>

\* model.train(): the parameters change; the trainer leaves the module in
\* eval mode.
Train ==
    /\ Idle /\ dec.pc = "idle" /\ fwd.pc = "idle"
    /\ weights < MaxTrain
    /\ weights' = weights + 1
    /\ training' = FALSE
    /\ prev' = NoPrev
    /\ UNCHANGED <<fully_deterministic, split_aggregation, shared_covariate_emb,
                   n_extra_continuous_covs, calls, dec, build, fwdvars>>

\* module.train(mode), as the trainer and the user call it.
SetMode(mode) ==
    /\ Idle /\ dec.pc = "idle" /\ fwd.pc = "idle"
    /\ training # mode
    /\ training' = mode
    /\ UNCHANGED <<fully_deterministic, split_aggregation, shared_covariate_emb,
                   n_extra_continuous_covs, weights, calls, dec, prev, build, fwdvars>>


\* ------------------------------------------------------- the forward pass
\* The batches handed to a forward pass: n cells of small counts.
XBatches(n) ==
    {[c \in 1..n |-> [f \in 1..NFeatures |-> (c + f + off) % 3]] : off \in {0, 1}}

\* The rank of z: (cells, n_latent).
ZDim == 2

\* The module is called on one batch: tensors with x and, possibly,
\* continuous covariates of some rank; kl_weight for the loss.
ForwardCall(x, cont_covs, kl_weight) ==
    /\ Idle /\ dec.pc = "idle" /\ fwd.pc = "idle"
    /\ fwd' = [pc |-> "inference", x |-> x, cont_covs |-> cont_covs,
               kl_weight |-> kl_weight, error |-> "none", invoked |-> {},
               inference_outputs |-> None, generative_outputs |-> None,
               losses |-> None]
    /\ UNCHANGED <<modvars, calls, dec, prev, build, fill_in_the_blanks_ratio>>

\* DRVIModule.inference on the batch.
Inference(rand, eps) ==
    /\ fwd.pc = "inference"
    /\ rand \in RandPatterns(fwd.x)
    /\ Masking \/ rand = RandHigh(fwd.x)
    /\ eps \in EpsFor(fwd.x)
    /\ fwd' = IF inferenceRaises(fwd.cont_covs)
              THEN [fwd EXCEPT !.pc = "raised", !.error = "AssertionError",
                               !.invoked = @ \cup {"inference"}]
              ELSE [fwd EXCEPT !.pc = "generative",
                               !.invoked = @ \cup {"inference", "z_encoder"},
                               !.inference_outputs =
                                   Some(inference(fwd.x, fwd.cont_covs, rand, eps))]
    /\ UNCHANGED <<modvars, calls, dec, prev, build, fill_in_the_blanks_ratio>>

\* DRVIModule.generative on the outputs of inference.
Generative(noise) ==
    /\ fwd.pc = "generative"
    /\ noise \in DropoutFor(training)
    /\ LET z == fwd.inference_outputs.val.z
           cat_covs == NoCovs(Len(fwd.x))
       IN  fwd' = IF generativeRaises(ZDim, fwd.cont_covs, cat_covs)
                  THEN [fwd EXCEPT !.pc = "raised", !.error = "AssertionError",
                                   !.invoked = @ \cup {"generative"}]
                  ELSE [fwd EXCEPT
                           !.pc = "loss",
                           !.invoked = @ \cup {"generative", "decoder"}
                                         \cup (IF fwd.cont_covs.given
                                               THEN {"torch.cat"} ELSE {}),
                           !.generative_outputs =
                               Some(generative(z, fwd.cont_covs, cat_covs, noise))]
    /\ UNCHANGED <<modvars, calls, dec, prev, build, fill_in_the_blanks_ratio>>

\* DRVIModule.loss on the outputs of both.
Loss ==
    /\ fwd.pc = "loss"
    /\ fwd' = [fwd EXCEPT !.pc = "done",
                          !.invoked = @ \cup {"loss"},
                          !.losses = Some(loss(fwd.x, fwd.inference_outputs.val,
                                               fwd.generative_outputs.val,
                                               fwd.kl_weight))]
    /\ UNCHANGED <<modvars, calls, dec, prev, build, fill_in_the_blanks_ratio>>

\* The caller has the outputs (or the exception).
ForwardReturn ==
    /\ fwd.pc \in {"done", "raised"}
    /\ fwd' = NoForward
    /\ UNCHANGED <<modvars, calls, dec, prev, build, fill_in_the_blanks_ratio>>

\* ---------------------------------------------------- iterate_on_ae_output
Routines == {"effect", "max", "custom"}
Done == {"returned", "raised"}

\* self.module(tensors, loss_kwargs): the steps of one forward pass, in the
\* order the module runs them.
ForwardStages == <<"inference", "generative", "loss">>
\* The kl_weight of loss_kwargs.
LossKlWeight == 1

\* What a call has done so far: the functions it called, in order, with the
\* (0-based) number of the batch they were called on.
Event(op, k) == [op |-> op, k |-> k, kl_weight |-> IF op = "loss" THEN LossKlWeight ELSE 0]
ForwardEventsLossFirst(k, n) ==
    [i \in 1..n |-> Event(ForwardStages[Len(ForwardStages) + 1 - i], k)]
ForwardEvents(k, n) == [i \in 1..n |-> Event(ForwardStages[i], k)]
StageIndex(stage) == CHOOSE i \in 1..Len(ForwardStages) : ForwardStages[i] = stage

NewFrame(routine, det, aoc, nb) ==
    [routine |-> routine, deterministic |-> det, aggregate_over_cells |-> aoc,
     nb |-> nb, k |-> 0, store |-> <<>>, log |-> <<>>, pc |-> "loop",
     pre_fd |-> fully_deterministic, qz_m |-> <<>>, z |-> <<>>, mean |-> <<>>,
     original |-> <<>>, losses |-> <<>>, events |-> <<>>,
     exc |-> "none", failed_at |-> 0 - 1, result |-> <<>>]

\* What step_func adds for one batch, by routine.
StepValue(f) ==
    IF f.routine = "custom"
    THEN inference(AeBatch(f.k + 1), NoCovs(AeRows), RandHigh(AeBatch(f.k + 1)),
                   NoEps(AeBatch(f.k + 1))).qz_m
    ELSE IF f.routine = "effect"
    THEN EffectRows([mean |-> f.mean, original |-> f.original])
    ELSE EffectMax([mean |-> f.mean, original |-> f.original])

\* np.maximum of two arrays of shape splits x features.
Maximum(a, b) ==
    [s \in 1..Len(a) |-> [f \in 1..Len(a[s]) |-> Max2(a[s][f], b[s][f])]]

\* calculate_effect of get_max_effect_of_splits_within_distribution keeps
\* one running maximum in store[0]; the other step functions append.
StoreKeepsLatest(f, v) == IF f.routine = "max" THEN <<v>> ELSE Append(f.store, v)
StoreAfter(f, v) ==
    IF f.routine = "max"
    THEN IF Len(f.store) = 0 THEN <<v>>
         ELSE [f.store EXCEPT ![1] = Maximum(f.store[1], v)]
    ELSE Append(f.store, v)

\* output.mean(axis=0) of an array of shape cells x splits, as the pair
\* (sums, count).
MeanAxis0(output) ==
    <<[s \in 1..NSplit |-> SumSeq([i \in 1..Len(output) |-> output[i][s]])],
      Len(output)>>

\* aggregation_func(store): torch.cat raises on an empty list.
AggregateRaises(f) == f.routine = "effect" /\ f.store = <<>>
Aggregate(f) ==
    IF f.routine = "effect"
    THEN LET output == Flatten(f.store)
         IN  IF f.aggregate_over_cells THEN MeanAxis0(output)
             ELSE output
    ELSE f.store

\* finally: self.module.fully_deterministic = False
FlagLeftAsItIs == fully_deterministic
FlagAfterFinally == "False"

\* The exit of the try statement: the finally clause resets the flag, a
\* BaseException goes on to the caller, otherwise aggregation_func runs.
Exit(f, exc, at) ==
    LET g == [f EXCEPT !.exc = exc, !.failed_at = at]
        h == [g EXCEPT !.events = Append(@, Event("aggregation_func", 0 - 1))]
    IN  IF exc = "BaseException" THEN [g EXCEPT !.pc = "raised"]
        ELSE IF AggregateRaises(h) THEN [h EXCEPT !.pc = "raised"]
        ELSE [h EXCEPT !.pc = "returned", !.result = Aggregate(h)]

ReplaceTop(f) == [calls EXCEPT ![Len(calls)] = f]

\* The frame without the outputs of the forward pass, which step_func has
\* used by then.
Cleared(f) == [f EXCEPT !.qz_m = <<>>, !.z = <<>>, !.mean = <<>>,
                        !.original = <<>>, !.losses = <<>>]

\* A call of one of the routines, from the user or from inside a step_func.
AeCall(routine, det, aoc, nb) ==
    /\ dec.pc = "idle" /\ fwd.pc = "idle"
    /\ \/ Idle
       \/ /\ ~Idle /\ Top.pc = "step" /\ Top.routine = "custom"
          /\ routine = "custom"
          /\ Depth < MaxDepth
    /\ routine = "effect" \/ aoc = FALSE
    /\ calls' = IF Idle THEN <<NewFrame(routine, det, aoc, nb)>>
                ELSE Append(ReplaceTop(Cleared(
                                [Top EXCEPT !.pc = "nested",
                                            !.events = Append(@, Event("step_func", Top.k))])),
                            NewFrame(routine, det, aoc, nb))
    /\ fully_deterministic' = IF det THEN "True" ELSE fully_deterministic
    /\ UNCHANGED <<training, split_aggregation, shared_covariate_emb,
                   n_extra_continuous_covs, weights, dec, prev, build, fwdvars>>

\* The loader yields the next batch and the forward pass runs on it: to the
\* end, or up to the stage that raises.  A pass that raises hands nothing
\* on, so its noise is left out of account.
AeForward(eps, noise, outcome, stage) ==
    /\ ~Idle /\ Top.pc = "loop" /\ Top.k < Top.nb
    /\ eps \in EpsFor(AeBatch(Top.k + 1))
    /\ noise \in DropoutFor(training)
    /\ stage \in {ForwardStages[i] : i \in 1..Len(ForwardStages)}
    /\ outcome = "ok" => stage = "loss"
    /\ outcome # "ok" => (eps = NoEps(AeBatch(Top.k + 1)) /\ noise = 0)
    /\ LET x == AeBatch(Top.k + 1)
           inf == inference(x, NoCovs(AeRows), RandHigh(x), eps)
           gen == generative(inf.z, NoCovs(AeRows), NoCovs(AeRows), noise)
           losses == loss(x, inf, gen, LossKlWeight)
           ran == [Top EXCEPT !.events = @ \o ForwardEvents(Top.k, StageIndex(stage))]
       IN  IF outcome = "ok"
           THEN /\ calls' = ReplaceTop([ran EXCEPT !.pc = "step", !.qz_m = inf.qz_m,
                                                   !.z = inf.z, !.mean = gen.mean,
                                                   !.original = gen.original,
                                                   !.losses = losses.loss])
                /\ UNCHANGED fully_deterministic
           ELSE /\ calls' = ReplaceTop(Exit(ran, outcome, Top.k))
                /\ fully_deterministic' = FlagAfterFinally
    /\ UNCHANGED <<training, split_aggregation, shared_covariate_emb,
                   n_extra_continuous_covs, weights, dec, prev, build, fwdvars>>

\* step_func runs on the outputs of the forward pass.
AeStep(outcome) ==
    /\ ~Idle /\ Top.pc = "step"
    /\ Top.routine = "custom" \/ outcome = (IF EffectRaises THEN "Exception" ELSE "ok")
    /\ LET called == [Top EXCEPT !.events = Append(@, Event("step_func", Top.k))]
       IN  IF outcome = "ok"
           THEN /\ LET v == StepValue(Top)
                   IN  calls' = ReplaceTop(Cleared(
                                   [called EXCEPT !.pc = "loop", !.k = @ + 1,
                                                  !.store = StoreAfter(Top, v),
                                                  !.log = Append(@, v)]))
                /\ UNCHANGED fully_deterministic
           ELSE /\ calls' = ReplaceTop(Exit(called, outcome, Top.k))
                /\ fully_deterministic' = FlagAfterFinally
    /\ UNCHANGED <<training, split_aggregation, shared_covariate_emb,
                   n_extra_continuous_covs, weights, dec, prev, build, fwdvars>>

\* The loader is exhausted.
AeLoopEnd ==
    /\ ~Idle /\ Top.pc = "loop" /\ Top.k = Top.nb
    /\ calls' = ReplaceTop(Exit(Top, "none", 0 - 1))
    /\ fully_deterministic' = FlagAfterFinally
    /\ UNCHANGED <<training, split_aggregation, shared_covariate_emb,
                   n_extra_continuous_covs, weights, dec, prev, build, fwdvars>>

\* The finished call hands control back: to the user, or to the step_func
\* that made it, which then appends its value and returns, or passes the
\* exception on to the loop it runs in.
AeReturn ==
    /\ ~Idle /\ Top.pc \in Done
    /\ IF Depth = 1
       THEN /\ calls' = <<>>
            /\ UNCHANGED fully_deterministic
       ELSE LET parent == calls[Depth - 1]
                rest == SubSeq(calls, 1, Depth - 2)
                v == StepValue(parent)
            IN  IF Top.pc = "returned"
                THEN /\ calls' = Append(rest,
                            [parent EXCEPT !.pc = "loop", !.k = @ + 1,
                                           !.store = StoreAfter(parent, v),
                                           !.log = Append(@, v)])
                     /\ UNCHANGED fully_deterministic
                ELSE /\ calls' = Append(rest,
                            Exit(parent,
                                 IF Top.exc = "BaseException" THEN "BaseException"
                                 ELSE "Exception",
                                 parent.k))
                     /\ fully_deterministic' = FlagAfterFinally
    /\ UNCHANGED <<training, split_aggregation, shared_covariate_emb,
                   n_extra_continuous_covs, weights, dec, prev, build, fwdvars>>

Outcomes == {"ok", "Exception", "BaseException"}

\* The module as DRVIModule.__init__ leaves it: an nn.Module starts in
\* training mode; fully_deterministic is not assigned; split_aggregation is
\* handed to the decoder only, so the attribute exists on the module only
\* where it was assigned from outside.
InitModule ==
    /\ fully_deterministic = "unset"
    /\ weights = 0
    /\ split_aggregation \in {"unset", "sum", "logsumexp", "max"}

\* iterate_on_ae_output on the module as it was constructed.
Init ==
    /\ InitModule
    /\ split_aggregation = "unset"
    /\ training = TRUE
    /\ shared_covariate_emb = "None"
    /\ n_extra_continuous_covs = 0
    /\ calls = <<>>
    /\ dec = NoDecode
    /\ prev = NoPrev
    /\ build = NotBuilt
    /\ fill_in_the_blanks_ratio = 0
    /\ fwd = NoForward

Next ==
    \/ \E r \in Routines, det \in BOOLEAN, aoc \in BOOLEAN, nb \in 0..MaxBatches :
          AeCall(r, det, aoc, nb)
    \/ \E eps \in [1..AeRows -> Eps], noise \in Eps, o \in Outcomes,
          stage \in {"inference", "generative", "loss"} :
          AeForward(eps, noise, o, stage)
    \/ \E o \in Outcomes : AeStep(o)
    \/ AeLoopEnd
    \/ AeReturn

Spec == Init /\ [][Next]_vars

\* The two attribution routines, get_reconstruction_effect_of_each_split and
\* get_max_effect_of_splits_within_distribution, on a module whose
\* split_aggregation may have been assigned from outside.
AttributionRoutines == {"effect", "max"}

InitAttribution ==
    /\ InitModule
    /\ training = TRUE
    /\ shared_covariate_emb = "None"
    /\ n_extra_continuous_covs = 0
    /\ calls = <<>>
    /\ dec = NoDecode
    /\ prev = NoPrev
    /\ build = NotBuilt
    /\ fill_in_the_blanks_ratio = 0
    /\ fwd = NoForward

NextAttribution ==
    \/ \E r \in AttributionRoutines, det \in BOOLEAN, aoc \in BOOLEAN,
          nb \in 0..MaxBatches :
          AeCall(r, det, aoc, nb)
    \/ \E eps \in [1..AeRows -> Eps], noise \in Eps, o \in Outcomes,
          stage \in {"inference", "generative", "loss"} :
          AeForward(eps, noise, o, stage)
    \/ \E o \in Outcomes : AeStep(o)
    \/ AeLoopEnd
    \/ AeReturn

SpecAttribution == InitAttribution /\ [][NextAttribution]_vars

\* decode_latent_samples on a constructed model, trained or not.
InitDecode ==
    /\ InitModule
    /\ training = TRUE
    /\ shared_covariate_emb \in {"None", "emb"}
    /\ n_extra_continuous_covs \in {0, 1}
    /\ calls = <<>>
    /\ dec = NoDecode
    /\ prev = NoPrev
    /\ build = NotBuilt
    /\ fill_in_the_blanks_ratio = 0
    /\ fwd = NoForward

NextDecode ==
    \/ \E n \in 0..MaxRows, batch_size \in 1..MaxBatchSize, l \in BOOLEAN,
          c \in BOOLEAN, k \in BOOLEAN :
          \E z \in ZArrays(n) :
             DecodeCall(z,
                        IF l THEN Given(n, LibArray(n)) ELSE NotGiven,
                        IF c THEN Given(n, CatArray(n)) ELSE NotGiven,
                        IF k THEN Given(n, ContArray(n)) ELSE NotGiven,
                        batch_size)
    \/ \E noise \in Eps : DecodeBatch(noise)
    \/ DecodeEnd
    \/ \E remember \in BOOLEAN : DecodeReturn(remember)
    \/ Train
    \/ \E mode \in BOOLEAN : SetMode(mode)

SpecDecode == InitDecode /\ [][NextDecode]_vars

\* The forward pass of a constructed module, in either mode; the ratio is
\* 0 (the default), 0.5 or 1.
Ratios == {0, 5, 10}
InitForward ==
    /\ InitModule
    /\ split_aggregation = "unset"
    /\ training = TRUE
    /\ shared_covariate_emb = "None"
    /\ n_extra_continuous_covs = 0
    /\ calls = <<>>
    /\ dec = NoDecode
    /\ prev = NoPrev
    /\ build = NotBuilt
    /\ fill_in_the_blanks_ratio \in Ratios
    /\ fwd = NoForward

NextForward ==
    \/ \E n \in 1..MaxCells, kl_weight \in 0..MaxKlWeight, dim \in 0..(ZDim + 1) :
          \E x \in XBatches(n) :
             ForwardCall(x, IF dim = 0 THEN NoCovs(n) ELSE Covs(n, dim), kl_weight)
    \/ \E n \in 1..MaxCells : \E x \in XBatches(n) :
          \E rand \in RandPatterns(x), eps \in EpsFor(x) : Inference(rand, eps)
    \/ \E noise \in Eps : Generative(noise)
    \/ Loss
    \/ ForwardReturn
    \/ \E mode \in BOOLEAN : SetMode(mode)

SpecForward == InitForward /\ [][NextForward]_vars

\* Construction: nothing is built yet.  fill_in_the_blanks_ratio is the
\* constructor's argument, assigned before the prior is built; a module
\* under construction is in training mode, as nn.Module.__init__ leaves it.
InitConstruct ==
    /\ InitModule
    /\ split_aggregation = "unset"
    /\ training = TRUE
    /\ shared_covariate_emb = "None"
    /\ n_extra_continuous_covs = 0
    /\ calls = <<>>
    /\ dec = NoDecode
    /\ prev = NoPrev
    /\ build = NotBuilt
    /\ fill_in_the_blanks_ratio \in Ratios
    /\ fwd = NoForward

\* The strings tried as gene_likelihood: the names of the constructor's
\* signature, the names of the dispatch, and some that are in neither.
Likelihoods ==
    {"nb", "nb_sv", "nb_orig", "pnb", "pnv_sv", "pnb_sv", "poisson", "lognormal",
     "normal", "normal_v", "normal_sv", "zinb", "NB", ""}

\* The strings tried as prior: a family name followed by up to MaxTail
\* characters.
TailChars == {"_", "2", "3", "x"}
Tails == UNION {[1..n -> TailChars] : n \in 0..MaxTail}
Heads == {normal, <<"g", "m", "m">>, <<"v", "a", "m", "p">>, <<"g", "m">>, <<>>}
Priors == {h \o t : h \in Heads, t \in Tails}

Loaders == {NoLoader} \cup {Loader(nb, m) : nb \in 0..MaxLoaderBatches, m \in 1..MaxObs}

\* What torch.rand_like can yield for the first batch of a loader; nothing
\* is drawn unless the pass masks.
FirstBatchRands(loader) ==
    IF loader.given /\ loader.batches # <<>> /\ Masking
    THEN RandPatterns(loader.batches[1]) ELSE {<<>>}

NextConstruct ==
    \/ /\ build.pc = "new"
       /\ \E gl \in Likelihoods, p \in Priors, l \in Loaders :
             \E rand \in FirstBatchRands(l) : ModuleInit(gl, p, l, rand)
    \/ /\ build.pc = "new"
       /\ \E gl \in Likelihoods, p \in Priors, n \in (0 - 1)..MaxObs :
             \E rand \in FirstBatchRands(IF n < 0 THEN NoLoader ELSE Loader(1, n)) :
                DRVIInit(gl, p, n, rand)

SpecConstruct == InitConstruct /\ [][NextConstruct]_vars

\* ------------------------------------------------------------------ claims
\* An attribute that was never assigned reads as not deterministic.
FlagValue(v) == IF v = "unset" THEN "False" ELSE v

\* C1: when iterate_on_ae_output has finished (returned or raised), the
\* module's fully_deterministic flag has the value it had when the call was
\* made, whatever the outcome and whatever `deterministic` was.
C1_FlagRestored ==
    (~Idle /\ Top.pc \in Done) =>
        FlagValue(fully_deterministic) = FlagValue(Top.pre_fd)

\* C2: in a call made with deterministic=True, every forward pass hands the
\* posterior mean to the generative step: z = qz_m, no sampling.
C2_NoSamplingWhenDeterministic ==
    (~Idle /\ Top.pc = "step" /\ Top.deterministic) => Top.z = Top.qz_m

\* The aggregate of the step results of the batches processed so far.
RECURSIVE MaximumOf(_)
MaximumOf(arrays) ==
    IF Len(arrays) = 1 THEN arrays[1]
    ELSE Maximum(arrays[1], MaximumOf(Tail(arrays)))
PartialAggregate(f) ==
    IF f.routine = "effect"
    THEN IF f.aggregate_over_cells
         THEN MeanAxis0(Flatten(f.log))
         ELSE Flatten(f.log)
    ELSE IF f.log = <<>> THEN <<>>
         ELSE <<MaximumOf(f.log)>>

\* C3: when the forward pass or step_func raises an Exception at batch k,
\* the two attribution routines raise nothing and return the aggregate of
\* the results of batches 0..k-1, in order (for every k, k = 0 included).
C3_PartialAggregateReturned ==
    (~Idle /\ Top.pc \in Done /\ Top.routine \in {"effect", "max"}
         /\ Top.exc = "Exception") =>
        (Top.pc = "returned" /\ Len(Top.log) = Top.failed_at
            /\ Top.result = PartialAggregate(Top))

\* The slices [i, min(i + batch_size, n)) for i = 0, batch_size, ...
ExpectedSlices(n, batch_size) ==
    [b \in 1..((n + batch_size - 1) \div batch_size) |->
        [j \in 1..(IF b * batch_size <= n THEN batch_size
                   ELSE n - (b - 1) * batch_size) |-> (b - 1) * batch_size + j - 1]]

\* How often row index r was decoded.
TimesDecoded(d, r) ==
    Cardinality({bp \in {<<b, p>> : b \in 1..Len(d.visited), p \in 1..d.batch_size} :
                    bp[2] <= Len(d.visited[bp[1]]) /\ d.visited[bp[1]][bp[2]] = r})

\* The eval-mode decoder mean of input row r (0-based), decoded on its own.
MeanOfRow(d, r) ==
    LET gi == GenInput(d, <<r>>)
    IN  decoder(<<[z |-> gi.z[1],
                   cont |-> IF gi.cont_covs.given THEN gi.cont_covs.val[1] ELSE 0]>>,
                gi.cat_covs.val, FALSE, 0)[1]

\* C8: for n >= 1 rows and batch_size >= 1, decode_latent_samples decodes the
\* contiguous slices [i, min(i + batch_size, n)), every row exactly once,
\* never invokes the encoder, and row j of the result is the decoded mean of
\* input row j.
C8_DecodeRowsInOrder ==
    (dec.pc = "returned" /\ Len(dec.z) >= 1) =>
        /\ dec.visited = ExpectedSlices(Len(dec.z), dec.batch_size)
        /\ \A r \in 0..(Len(dec.z) - 1) : TimesDecoded(dec, r) = 1
        /\ dec.invoked \cap {"inference", "z_encoder"} = {}
        /\ Len(dec.result) = Len(dec.z)
        /\ \A r \in 0..(Len(dec.z) - 1) : dec.result[r + 1] = MeanOfRow(dec, r)

C8_Witness ==
    /\ dec.pc = "returned" /\ Len(dec.z) = 3 /\ dec.batch_size = 2
    /\ Len(dec.visited) = 2 /\ dec.pre_training /\ dec.cat_key.given

\* C9: a second decode_latent_samples call with the arguments of the first
\* and no training in between ends like the first: same result, same
\* batches in the same order, no encoder pass (no mask, no latent sample),
\* and the module state it leaves is the state the first call left.
C9_DecodeIdempotent ==
    (dec.pc \in {"returned", "raised"} /\ prev.valid) =>
        /\ dec.pc = prev.pc
        /\ dec.result = prev.result
        /\ dec.visited = prev.visited
        /\ dec.invoked \cap {"inference", "z_encoder"} = {}
        /\ training = prev.training
        /\ fully_deterministic = prev.fully_deterministic
        /\ weights = prev.weights

C9_Witness ==
    /\ dec.pc = "returned" /\ prev.valid /\ prev.pc = "returned"
    /\ Len(dec.visited) = 2 /\ dec.pre_training /\ ~prev.training

\* C10: once decode_latent_samples has returned or raised, the module's
\* training/eval mode and its fully_deterministic flag are what they were
\* when the call was made.
C10_ModeRestored ==
    (dec.pc \in {"returned", "raised"}) =>
        /\ training = dec.pre_training
        /\ fully_deterministic = dec.pre_fd

\* The identifiers the dispatch of _construct_gene_likelihood_module names.
SupportedLikelihoods ==
    {"normal", "normal_v", "normal_sv", "lognormal", "poisson", "nb", "nb_sv",
     "nb_orig", "pnb", "pnb_sv"}

\* C4: DRVIModule construction raises for every gene_likelihood outside the
\* supported set and for every prior that is neither 'normal' nor starts
\* with 'gmm_' or 'vamp_'; no noise model or prior is defaulted.
C4_UnsupportedFailsFast ==
    (build.pc # "new" /\ build.who = "DRVIModule"
        /\ (\/ build.gene_likelihood \notin SupportedLikelihoods
            \/ ~(build.prior = normal \/ startswith(build.prior, gmm_)
                   \/ startswith(build.prior, vamp_)))) =>
        /\ build.pc = "failed"
        /\ build.error = "NotImplementedError"
        /\ build.gene_likelihood_module = "unset"
        /\ build.prior_obj.kind = "unset"

C4_Witness ==
    /\ build.pc = "failed" /\ build.who = "DRVIModule"
    /\ build.gene_likelihood = "normal"
    /\ build.prior = normal \o <<"_", "2">>

\* The ten identifiers of the constructor's signature.
NamedLikelihoods ==
    {"nb", "nb_sv", "nb_orig", "pnb", "pnv_sv", "poisson", "lognormal",
     "normal", "normal_v", "normal_sv"}

\* C5: each of the ten gene-likelihood identifiers of the constructor's
\* signature is accepted at construction and selects a noise model.
C5_NamedLikelihoodsAccepted ==
    (build.pc # "new" /\ build.who = "DRVIModule" /\ build.prior = normal
        /\ build.gene_likelihood \in NamedLikelihoods) =>
        (build.pc = "constructed" /\ build.gene_likelihood_module # "unset")

\* 'gmm_<n>' or 'vamp_<n>': the prefix and one run of digits.
WellFormed(prior, prefix) ==
    /\ startswith(prior, prefix)
    /\ Len(prior) > Len(prefix)
    /\ \A i \in (Len(prefix) + 1)..Len(prior) : prior[i] \in Digits

\* C6: a compound prior identifier is accepted only as 'gmm_<n>' or
\* 'vamp_<n>' with exactly one integer suffix; every malformed one makes
\* construction fail; the count parsed by _construct_prior is the count
\* parsed by the DRVI constructor.
C6_MalformedPriorRejected ==
    (build.pc = "constructed" /\ build.who = "DRVIModule"
        /\ build.prior # normal) =>
        /\ WellFormed(build.prior, gmm_) \/ WellFormed(build.prior, vamp_)
        /\ build.prior_obj.n_components = ModelPriorCount(build.prior)

\* C7: for 'vamp_<n>', DRVIModule construction raises when no loader is
\* supplied and assigns no prior; with a loader it builds a VampPrior of n
\* components from the loader's first batch.
C7_VampNeedsPseudoInputs ==
    (build.pc # "new" /\ build.who = "DRVIModule"
        /\ build.gene_likelihood \in SupportedLikelihoods
        /\ WellFormed(build.prior, vamp_)) =>
        /\ ~build.loader.given =>
              /\ build.pc = "failed" /\ build.error = "ValueError"
              /\ build.prior_obj.kind = "unset"
        /\ (build.loader.given /\ build.loader.batches # <<>>) =>
              /\ build.pc = "constructed"
              /\ build.prior_obj.kind = "VampPrior"
              /\ build.prior_obj.n_components
                   = int(SubSeq(build.prior, Len(vamp_) + 1, Len(build.prior)))
              /\ build.prior_obj.data
                   = initial_transformation(build.loader.batches[1])

C7_Witness ==
    /\ build.pc = "constructed" /\ build.who = "DRVIModule"
    /\ build.prior = vamp_ \o <<"3">>
    /\ Len(build.loader.batches) = 2
    /\ build.prior_obj.kind = "VampPrior"

\* The transformed input with the features of mask value 0 zeroed.
Zeroed(x_, x_mask) ==
    [c \in 1..Len(x_) |-> [f \in 1..NFeatures |->
        IF x_mask[c][f] = 0 THEN 0 ELSE x_[c][f]]]

\* C11 as stated: inference draws a mask and zeroes encoder-input features
\* if and only if fill_in_the_blanks_ratio > 0 and the module is in training
\* mode; otherwise x_mask is None and the encoder receives the transformed
\* input unmodified.
C11_MaskIffRatioAndTraining ==
    ("inference" \in fwd.invoked) =>
        IF fill_in_the_blanks_ratio > 0 /\ training
        THEN /\ fwd.inference_outputs.given
             /\ fwd.inference_outputs.val.x_mask.given
             /\ fwd.inference_outputs.val.encoder_input
                  = Zeroed(initial_transformation(fwd.x),
                           fwd.inference_outputs.val.x_mask.val)
        ELSE /\ fwd.inference_outputs.given
             /\ ~fwd.inference_outputs.val.x_mask.given
             /\ fwd.inference_outputs.val.encoder_input = initial_transformation(fwd.x)

\* C11, amended: the same when no continuous covariates are given; with
\* fill_in_the_blanks_ratio > 0, training mode and continuous covariates,
\* inference raises AssertionError, draws no mask and does not invoke the
\* encoder.
C11_MaskIffRatioAndTrainingWithoutContCovs ==
    ("inference" \in fwd.invoked) =>
        IF fill_in_the_blanks_ratio > 0 /\ training
        THEN IF fwd.cont_covs.given
             THEN /\ fwd.pc = "raised" /\ fwd.error = "AssertionError"
                  /\ ~fwd.inference_outputs.given
                  /\ "z_encoder" \notin fwd.invoked
             ELSE /\ fwd.inference_outputs.given
                  /\ fwd.inference_outputs.val.x_mask.given
                  /\ \A c \in 1..Len(fwd.x), f \in 1..NFeatures :
                        fwd.inference_outputs.val.x_mask.val[c][f] \in {0, 1}
                  /\ fwd.inference_outputs.val.encoder_input
                       = Zeroed(initial_transformation(fwd.x),
                                fwd.inference_outputs.val.x_mask.val)
        ELSE /\ fwd.inference_outputs.given
             /\ ~fwd.inference_outputs.val.x_mask.given
             /\ fwd.inference_outputs.val.encoder_input = initial_transformation(fwd.x)

C11_Witness ==
    /\ fwd.pc = "generative" /\ training /\ fill_in_the_blanks_ratio = 5
    /\ fwd.inference_outputs.val.x_mask.given
    /\ fwd.inference_outputs.val.x_mask.val[1][1] = 0
    /\ fwd.inference_outputs.val.x_mask.val[1][2] = 1
    /\ fwd.inference_outputs.val.encoder_input # initial_transformation(fwd.x)

\* The per-cell sum of -log_prob over the features in `features`.
NllOver(c, features) ==
    LET nll == NegLogProb(fwd.x, fwd.generative_outputs.val.mean)
    IN  SumSeq([f \in 1..NFeatures |-> IF f \in features THEN nll[c][f] ELSE 0])

\* The features of cell c the reconstruction term counts: all of them, or
\* those of mask value 0 when the step masks.
Counted(c) ==
    IF fill_in_the_blanks_ratio > 0 /\ training
    THEN {f \in 1..NFeatures : fwd.inference_outputs.val.x_mask.val[c][f] = 0}
    ELSE 1..NFeatures

C13_RankMismatchAsserts ==
    ("generative" \in fwd.invoked) =>
        /\ (fwd.cont_covs.given /\ fwd.cont_covs.dim # ZDim) =>
              /\ fwd.pc = "raised" /\ fwd.error = "AssertionError"
              /\ "torch.cat" \notin fwd.invoked
              /\ "decoder" \notin fwd.invoked
              /\ ~fwd.generative_outputs.given
        /\ ~fwd.cont_covs.given =>
              /\ fwd.generative_outputs.given
              /\ "torch.cat" \notin fwd.invoked
              /\ fwd.generative_outputs.val.decoder_input
                   = fwd.inference_outputs.val.z

C13_Witness ==
    /\ fwd.pc = "raised" /\ "generative" \in fwd.invoked
    /\ fwd.cont_covs.given /\ fwd.cont_covs.dim = ZDim + 1
    /\ Len(fwd.x) = 2

\* C14: in the attribution routines the shares computed before weighting sum
\* to 1 across the splits, for every cell and every feature, under softmax
\* (logsumexp aggregation) and under L1-normalisation of absolute values
\* (sum aggregation), cells and features whose per-split means are all zero
\* included.
C14_SharesSumToOne ==
    (~Idle /\ Top.pc = "step" /\ Top.routine \in {"effect", "max"}
        /\ ~EffectRaises) =>
        \A i \in 1..Len(Top.original), f \in 1..NFeatures :
            LET share == EffectShare(Top.original[i])[f]
            IN  SumSeq([s \in 1..NSplit |-> share[s].num]) = share[1].den

\* The call ended because step_func raised (not the forward pass, not an
\* interruption).
StepFailed(f) ==
    /\ f.exc = "Exception"
    /\ \E p \in 1..Len(f.events) :
          f.events[p].op = "step_func" /\ f.events[p].k = f.failed_at

\* C15: with split_aggregation = 'max' (and several splits)
\* get_max_effect_of_splits_within_distribution, run on at least one batch
\* whose forward pass succeeds, returns a non-negative array with an entry
\* per feature: not an empty result and not an error.
C15_MaxAggregationAttributed ==
    (~Idle /\ Top.routine = "max" /\ Top.pc \in Done /\ Top.nb >= 1
        /\ split_aggregation = "max"
        /\ (Top.exc = "none" \/ StepFailed(Top))) =>
        /\ Top.pc = "returned"
        /\ Top.result # <<>>
        /\ \A a \in 1..Len(Top.result), s \in 1..NSplit :
              /\ Len(Top.result[a][s]) = NFeatures
              /\ \A f \in 1..NFeatures : Top.result[a][s][f] >= 0

\* a >= b in every entry, for arrays of shape splits x features.
AtLeast(a, b) ==
    \A s \in 1..Len(a) : \A f \in 1..Len(a[s]) : a[s][f] >= b[s][f]

\* The store of the running get_max_effect_of_splits_within_distribution.
MaxStore == calls[Len(calls)].store

\* C16: during get_max_effect_of_splits_within_distribution the store holds
\* at most one array; after every processed batch each of its elements is
\* >= 0 and the array is the elementwise maximum over the batches processed
\* so far; from one batch to the next no element decreases.
C16_RunningMaximum ==
    /\ [](~Idle /\ Top.routine = "max" =>
            /\ Len(Top.store) <= 1
            /\ (Top.log # <<>>) =>
                  /\ Len(Top.store) = 1
                  /\ Top.store[1] = MaximumOf(Top.log)
                  /\ \A b \in 1..Len(Top.log) : AtLeast(Top.store[1], Top.log[b])
                  /\ \A s \in 1..NSplit, f \in 1..NFeatures : Top.store[1][s][f] >= 0
            /\ Top.pc = "returned" => Top.result = Top.store)
    /\ [][(/\ calls # <<>> /\ calls' # <<>>
           /\ Top.routine = "max" /\ Top.store # <<>>)
          => (MaxStore' # <<>> /\ AtLeast(MaxStore'[1], MaxStore[1]))]_vars

C16_Witness ==
    /\ ~Idle /\ Top.routine = "max" /\ Top.pc = "returned"
    /\ Len(Top.log) = 2 /\ Len(Top.store) = 1
    /\ Top.store[1] # Top.log[2]
    /\ Top.result = <<MaximumOf(Top.log)>>

\* The configurations of the tests: a likelihood of the dispatch, and a
\* prior that is 'normal', or 'gmm_<n>' with no or with n observations, or
\* 'vamp_<n>' with n observations.
ValidConfiguration ==
    /\ build.gene_likelihood \in {"nb", "normal", "pnb", "normal_sv"}
    /\ \/ build.prior = normal /\ build.n_obs < 0
       \/ /\ WellFormed(build.prior, gmm_)
          /\ build.n_obs < 0 \/ build.n_obs = ModelPriorCount(build.prior)
       \/ /\ WellFormed(build.prior, vamp_)
          /\ build.n_obs = ModelPriorCount(build.prior)

\* C17: for every valid configuration constructing DRVI completes, and each
\* module attribute read by the DRVI constructor and by the analysis mixin
\* has been assigned by the time DRVIModule.__init__ returns.
C17_ConstructionCompletes ==
    (build.pc # "new" /\ build.who = "DRVI" /\ ValidConfiguration) =>
        /\ build.pc = "constructed"
        /\ (ModelReads \cup MixinReads) \subseteq ModuleAttributes

\* C18: when iterate_on_ae_output is interrupted during a batch by something
\* that is not an ordinary Exception (KeyboardInterrupt), the interruption
\* reaches the caller, no aggregate is computed or returned, and the module's
\* fully_deterministic is not True afterwards.
C18_InterruptPropagates ==
    (~Idle /\ Top.pc \in Done /\ Top.exc = "BaseException") =>
        /\ Top.pc = "raised"
        /\ Top.result = <<>>
        /\ \A p \in 1..Len(Top.events) : Top.events[p].op # "aggregation_func"
        /\ fully_deterministic # "True"

C18_Witness ==
    /\ ~Idle /\ Top.pc = "raised" /\ Top.exc = "BaseException"
    /\ Top.deterministic /\ Top.failed_at = 1 /\ Len(Top.store) = 1
    /\ fully_deterministic = "False"

\* The positions of the step_func calls among the events of a call.
StepCalls(f) == {p \in 1..Len(f.events) : f.events[p].op = "step_func"}

\* step_func raised or was interrupted on the batch at which the call ended.
StepRaised(f) ==
    /\ f.exc # "none"
    /\ \E p \in StepCalls(f) : f.events[p].k = f.failed_at

\* The order of the calls one activation f of iterate_on_ae_output has made:
\* inference, generative and loss (kl_weight = 1) of a batch come, in that
\* order, right before the step_func call on it; the batches are taken in
\* loader order; step_func is called once per batch whose forward pass
\* succeeded and for no batch after a failure; aggregation_func is the last
\* call, made after the loop has ended, and is made once at most.
CallOrder(f) ==
    LET ev == f.events
    IN  /\ \A p \in StepCalls(f) :
              /\ p >= 4
              /\ ev[p - 3] = [op |-> "inference", k |-> ev[p].k, kl_weight |-> 0]
              /\ ev[p - 2] = [op |-> "generative", k |-> ev[p].k, kl_weight |-> 0]
              /\ ev[p - 1] = [op |-> "loss", k |-> ev[p].k, kl_weight |-> 1]
              /\ ev[p].k = Cardinality({q \in StepCalls(f) : q < p})
        /\ \A p \in 1..Len(ev) :
              (ev[p].op = "inference") =>
                  /\ ev[p].k = Cardinality({q \in StepCalls(f) : q < p})
                  /\ p = 1 \/ ev[p - 1].op = "step_func"
        /\ Len(f.log) <= Cardinality(StepCalls(f))
        /\ Cardinality(StepCalls(f)) <= Len(f.log) + 1
        /\ f.pc \in {"loop"} \cup Done =>
              Cardinality(StepCalls(f))
                 = Len(f.log) + (IF StepRaised(f) THEN 1 ELSE 0)
        /\ f.exc # "none" =>
              \A p \in 1..Len(ev) : ev[p].k <= f.failed_at
        /\ \A p \in 1..Len(ev) :
              (ev[p].op = "aggregation_func") => (p = Len(ev) /\ f.pc \in Done)

\* aggregation_func has been called by the activation f.
Aggregated(f) == f.events # <<>> /\ Last(f.events).op = "aggregation_func"

C20_MaskedReconstruction ==
    (fwd.pc = "done") =>
        \A c \in 1..Len(fwd.x) :
            LET mask == fwd.inference_outputs.val.x_mask
                rec == fwd.losses.val.reconstruction_loss[c]
            IN  IF fill_in_the_blanks_ratio > 0 /\ training
                THEN /\ mask.given
                     /\ rec = NllOver(c, {f \in 1..NFeatures : mask.val[c][f] = 0})
                     /\ (\A f \in 1..NFeatures : mask.val[c][f] = 1) => rec = 0
                ELSE rec = NllOver(c, 1..NFeatures)

C20_Witness ==
    /\ fwd.pc = "done" /\ training /\ fill_in_the_blanks_ratio = 5
    /\ fwd.inference_outputs.val.x_mask.val[1][1] = 0
    /\ fwd.inference_outputs.val.x_mask.val[1][2] = 1
    /\ NllOver(1, {2}) > 0
    /\ fwd.losses.val.reconstruction_loss[1] = NllOver(1, {1})
    /\ fwd.losses.val.reconstruction_loss[1] < NllOver(1, 1..NFeatures)

\* prior_init_obs of n_obs observations fits the identifier: it contains
\* '_' and the piece after the last '_' is the integer n_obs.
ObsFitPrior(prior, n_obs) ==
    LET pieces == split(prior, "_")
        last == pieces[Len(pieces)]
    IN  Contains(prior, "_") /\ ~intRaises(last) /\ n_obs = int(last)

\* Nothing of a module exists: no noise model, no prior, no encoder pass.
NoModuleBuilt ==
    /\ build.gene_likelihood_module = "unset"
    /\ build.prior_obj = NoPrior
    /\ build.encoder_passes = 0

\* C21: constructing DRVI with prior_init_obs succeeds only if the prior
\* identifier contains '_' and the number of observations is the integer
\* after its last '_': otherwise the construction ends in the assertions
\* (or in int()) with no module built; prior = 'normal' with prior_init_obs
\* is rejected by an AssertionError before the module is built.
C21_PriorInitObsChecked ==
    (build.pc # "new" /\ build.who = "DRVI" /\ build.n_obs >= 0) =>
        /\ build.pc = "constructed" => ObsFitPrior(build.prior, build.n_obs)
        /\ ~ObsFitPrior(build.prior, build.n_obs) =>
              /\ build.pc = "failed"
              /\ build.error \in {"AssertionError", "ValueError"}
              /\ NoModuleBuilt
        /\ build.prior = normal =>
              /\ build.pc = "failed"
              /\ build.error = "AssertionError"
              /\ NoModuleBuilt

C21_Witness ==
    /\ build.pc = "failed" /\ build.who = "DRVI" /\ build.prior = normal
    /\ build.n_obs = 2 /\ build.error = "AssertionError"

\* C22: the deterministic mode is one flag of the module, so a call of
\* iterate_on_ae_output made from inside step_func leaves
\* module.fully_deterministic False while the outer call, made with
\* deterministic=True, goes on with its remaining batches: whenever a nested
\* call hands control back to an outer call with deterministic=True that
\* continues its loop, the flag is False.
C22_NestedCallClearsFlag ==
    [][(/\ Len(calls) >= 2
        /\ Len(calls') = Len(calls) - 1
        /\ calls'[Len(calls')].deterministic
        /\ calls'[Len(calls')].pc = "loop")
       => fully_deterministic' = "False"]_vars

C22_Witness ==
    /\ Len(calls) = 1 /\ Top.deterministic /\ Top.routine = "custom"
    /\ Top.pc = "loop" /\ Top.k = 1 /\ Top.nb = 2
    /\ fully_deterministic = "False"

\* The library size of input row r (0-based) of a decode call.
LibrarySize(d, r) == IF d.lib.given THEN d.lib.val[r + 1] ELSE DefaultLib

\* The rows (0-based) of the b-th batch handed to the generative step.
HandedRows(d, b) == Slice((b - 1) * d.batch_size, d.batch_size, Len(d.z))

\* C23: the library value handed to the generative step is on the log
\* scale; in decode_latent_samples the supplied (or default 1e4) library
\* size of every row reaches the generative step as its logarithm.
C23_DecodeLibraryOnLogScale ==
    (dec.pc # "idle") =>
        \A b \in 1..Len(dec.handed) :
            \A j \in 1..Len(dec.handed[b].library) :
                dec.handed[b].library[j]
                    = Log(LibrarySize(dec, HandedRows(dec, b)[j]))

\* C24: in decode_latent_samples the continuous covariates handed to the
\* generative step are, for every batch, the rows of cont_key of that
\* batch's slice, and None when cont_key is None.
C24_ContKeyHandedOn ==
    (dec.pc # "idle") =>
        \A b \in 1..Len(dec.handed) :
            IF dec.cont_key.given
            THEN /\ dec.handed[b].cont_covs.given
                 /\ dec.handed[b].cont_covs.val
                       = Take(dec.cont_key.val, HandedRows(dec, b))
            ELSE ~dec.handed[b].cont_covs.given


\* What the encoder yields for the first batch of a loader when nothing of
\* the batch is masked.
UnmaskedFirstBatchMean(loader) ==
    LET first == loader.batches[1]
    IN  z_encoder(_input_pre_processing(first, NoCovs(Len(first))).encoder_input,
                  NoEps(first)).qz_m

\* C25: a module constructed with a 'gmm_<n>' prior and a loader has passed
\* the first batch of the loader through the encoder, once, and nothing of
\* that batch was masked, whatever fill_in_the_blanks_ratio is; with the
\* 'normal' prior no pass through the encoder is made.
C25_GmmInitPassUnmasked ==
    (build.pc = "constructed" /\ build.who = "DRVIModule") =>
        /\ (startswith(build.prior, gmm_) /\ build.loader.given) =>
              /\ build.encoder_passes = 1
              /\ ~build.x_mask.given
              /\ build.prior_obj.data = UnmaskedFirstBatchMean(build.loader)
        /\ build.prior = normal =>
              (build.encoder_passes = 0 /\ build.prior_obj.data = <<>>)

====
